---- MODULE Spec2Model ----
(***************************************************************************)
(* GFLHead (mmdet/models/dense_heads/gfl_head.py): target assignment,      *)
(* loss orchestration across distributed workers, inference decoding and   *)
(* the Integral layer, as state machines.                                  *)
(*                                                                         *)
(* Conventions.  Python's 0-based indices are 1-based here.  A Python      *)
(* value that may be None is wrapped: None, or Some(v).  Tensors are       *)
(* sequences; a box is a 4-tuple <<x1, y1, x2, y2>>.                       *)
(*                                                                         *)
(* The file defines _get_target_single only as a commented-out block       *)
(* (lines 672-833); get_target_single below is translated from that block. *)
(* Loss values are [n, d] fractions where d = 0 stands for nan / inf;      *)
(* decoded boxes and scores are exact rationals, with exp rounded to       *)
(* thousandths.                                                            *)
(***************************************************************************)
EXTENDS Integers, Sequences, FiniteSets, TLC

VARIABLES
    world,            \* number of distributed workers running loss()
    anchor_list,      \* per worker: anchor_list argument of get_targets
    valid_flag_list,  \* per worker: valid_flag_list argument of get_targets
    imgs,             \* per worker: per image ground truth, meta, assigner outcomes
    unmap_outputs,    \* per worker: unmap_outputs argument of get_targets
    arg_entries,      \* per worker: what the entries of anchor_list and
                      \* valid_flag_list are, "lists" of per-level tensors or "tensors"
    targets_again,    \* per worker: what a second get_targets call on the same
                      \* argument objects produced
    cls_prob,         \* per worker: top class probability of the score maps
    bbox_preds,        \* per worker: the distribution logits of the box maps
    level_locals,     \* per worker: the locals of each loss_single call made
    level_frames,     \* per worker, per level: a loss_single call run on its own
    pc,               \* per worker: position inside loss()
    error,            \* per worker: the exception loss() raised, if any
    targets,          \* per worker: what get_targets produced
    red,              \* per collective call: the operand each worker joined with
    num_total_samples,     \* per worker: local of loss()
    num_total_samples_neg, \* per worker: local of loss()
    level_results,    \* per worker: the tuples loss_single returned so far
    avg_factor,       \* per worker: local of loss()
    avg_factor_neg,   \* per worker: local of loss()
    losses,           \* per worker: the loss lists being assembled / returned
    trace,            \* per worker: the steps of loss() taken so far
    integral_pc,      \* position of the Integral.forward call
    integral_x,       \* argument x of Integral.forward
    integral_out,     \* the softmax (x after line 47) and the value returned
    bboxes_pc,        \* position of the _get_bboxes call
    bboxes_args,      \* the arguments of _get_bboxes
    batch_mlvl_bboxes,  \* local of _get_bboxes when it returns
    batch_mlvl_scores,  \* local of _get_bboxes when it returns
    det_results,      \* what _get_bboxes returned
    mlvl_kept,        \* per level: anchors, bbox_pred, scores after the pre-filter
    bboxes_error,     \* the exception _get_bboxes raised, if any
    anchor_generator_strides  \* self.anchor_generator.strides: (w, h) per level

targets_vars == <<anchor_list, valid_flag_list, imgs, unmap_outputs, targets,
                  arg_entries, targets_again>>
loss_vars == <<cls_prob, bbox_preds, level_locals, level_frames, red, num_total_samples, num_total_samples_neg,
               level_results, avg_factor, avg_factor_neg, losses, trace>>
integral_vars == <<integral_pc, integral_x, integral_out>>
bboxes_vars == <<bboxes_pc, bboxes_args, batch_mlvl_bboxes, batch_mlvl_scores,
                 det_results, bboxes_error, mlvl_kept>>
head_vars == <<anchor_generator_strides>>
vars == <<world, pc, error, targets_vars, loss_vars, integral_vars, bboxes_vars,
          head_vars>>

----------------------------------------------------------------------------
(* Bounds and configuration *)

MaxImgs == 2
MaxWorkers == 2
MaxRows == 2

\* Integral.reg_max
reg_max == 2

num_classes == 2
allowed_border == 0
pos_weight == -1

\* The strides of the head's anchor generator as configured: (w, h) per level
strides == << <<2, 2>>, <<4, 4>> >>
\* anchors per level (a 1 x W feature map per level)
featmap_sizes == <<2, 1>>

Levels == 1..Len(strides)
ImgShapes == { <<5, 5>>, <<5, 4>> }
GtCounts == {0, 1}
AssignedNegVals == {0, 1}

----------------------------------------------------------------------------
(* Values *)

None == [none |-> TRUE, v |-> <<>>]
Some(x) == [none |-> FALSE, v |-> x]

Max(a, b) == IF a >= b THEN a ELSE b
Min(a, b) == IF a <= b THEN a ELSE b

RECURSIVE SumSeq(_)
SumSeq(s) == IF s = <<>> THEN 0 ELSE Head(s) + SumSeq(Tail(s))

\* torch.cat over a list of 1-d / 2-d tensors along dim 0
RECURSIVE torch_cat(_)
torch_cat(ss) == IF ss = <<>> THEN <<>> ELSE Head(ss) \o torch_cat(Tail(ss))

\* mask.nonzero().squeeze(1): the positions where a boolean tensor is true
nonzero(mask) ==
    LET F[i \in 0..Len(mask)] ==
            IF i = 0 THEN <<>>
            ELSE IF mask[i] THEN Append(F[i - 1], i) ELSE F[i - 1]
    IN F[Len(mask)]

\* A tensor given element by element, as the stored tensor
tensor(elements) == elements \o <<>>

ZeroBox == <<0, 0, 0, 0>>
OneBox == <<1, 1, 1, 1>>

----------------------------------------------------------------------------
(* Collaborators of the head (mmdet.core, AnchorHead) *)

\* AnchorHead.get_anchors: the same multi-level anchors for every image
AnchorBox(l, k) == LET s == strides[l][1] IN <<(k - 1) * s, 0, k * s, s>>
get_anchors == [l \in Levels |-> [k \in 1..featmap_sizes[l] |-> AnchorBox(l, k)]]

\* mmdet.core.anchor_inside_flags
anchor_inside_flags(flat_anchors, valid_flags, img_shape, border) ==
    IF border >= 0
    THEN [p \in 1..Len(flat_anchors) |->
            /\ valid_flags[p]
            /\ flat_anchors[p][1] >= -border
            /\ flat_anchors[p][2] >= -border
            /\ flat_anchors[p][3] < img_shape[2] + border
            /\ flat_anchors[p][4] < img_shape[1] + border]
    ELSE valid_flags

\* mmdet.core.unmap: ret = full(count, fill); ret[inds] = data
unmap(data, count, inds, fill) ==
    LET rank(p) == Cardinality({q \in 1..p : inds[q]})
    IN [p \in 1..count |-> IF inds[p] THEN data[rank(p)] ELSE fill]

\* PseudoSampler.sample: every matched anchor is positive, every unmatched negative
sample(gt_inds, gt_bboxes) ==
    LET pos == nonzero([j \in 1..Len(gt_inds) |-> gt_inds[j] > 0])
        neg == nonzero([j \in 1..Len(gt_inds) |-> gt_inds[j] = 0])
    IN [pos_inds |-> pos,
        neg_inds |-> neg,
        pos_assigned_gt_inds |-> [j \in 1..Len(pos) |-> gt_inds[pos[j]]],
        pos_gt_bboxes |-> [j \in 1..Len(pos) |-> gt_bboxes[gt_inds[pos[j]]]]]

\* mmdet.core.multi_apply: tuple(map(list, zip(*map(func, *args))))
multi_apply(results) ==
    LET width == IF \E i \in 1..Len(results) : TRUE
                 THEN CHOOSE m \in 0..14 :
                        /\ \A i \in 1..Len(results) : m <= Len(results[i])
                        /\ \E i \in 1..Len(results) : m = Len(results[i])
                 ELSE 0
    IN [k \in 1..width |-> [i \in 1..Len(results) |-> results[i][k]]]

\* mmdet.core.images_to_levels: stack the images, slice [start:end] per level
images_to_levels(target, num_levels) ==
    LET start(l) == SumSeq(SubSeq(num_levels, 1, l - 1))
    IN [l \in 1..Len(num_levels) |->
          [i \in 1..Len(target) |->
              SubSeq(target[i], start(l) + 1,
                     Min(start(l) + num_levels[l], Len(target[i])))]]

----------------------------------------------------------------------------
(* GFLHead.get_num_level_anchors_inside *)

get_num_level_anchors_inside(num_level_anchors, inside_flags) ==
    LET start(l) == SumSeq(SubSeq(num_level_anchors, 1, l - 1))
    IN [l \in 1..Len(num_level_anchors) |->
          Cardinality({p \in (start(l) + 1)..(start(l) + num_level_anchors[l]) :
                          p <= Len(inside_flags) /\ inside_flags[p]})]

----------------------------------------------------------------------------
(* GFLHead._get_target_single *)

\* data[inds] = vals (vals a sequence as long as inds)
index_put(data, inds, vals) ==
    [p \in 1..Len(data) |->
        IF \E j \in 1..Len(inds) : inds[j] = p
        THEN vals[CHOOSE j \in 1..Len(inds) : inds[j] = p]
        ELSE data[p]]

\* data[inds] = c (one value for every index)
index_fill(data, inds, c) ==
    [p \in 1..Len(data) |-> IF \E j \in 1..Len(inds) : inds[j] = p THEN c ELSE data[p]]

TargetSentinel == [k \in 1..7 |-> None]

\* Labels that start as class 0 instead of background
new_full_labels_zero(num_valid_anchors) == [j \in 1..num_valid_anchors |-> 0]

\* anchors.new_full((num_valid_anchors, ), self.num_classes)
new_full_labels(num_valid_anchors) == [j \in 1..num_valid_anchors |-> num_classes]

\* unmap with its default fill, 0
unmap_labels_default_fill(labels, num_total_anchors, inside_flags) ==
    unmap(labels, num_total_anchors, inside_flags, 0)

\* unmap(labels, num_total_anchors, inside_flags, fill=self.num_classes)
unmap_labels(labels, num_total_anchors, inside_flags) ==
    unmap(labels, num_total_anchors, inside_flags, num_classes)

\* One stream of targets over the anchors that passed the filter.
stream_targets(num_valid_anchors, sampling_result, gt_labels) ==
    LET pos_inds == sampling_result.pos_inds
        neg_inds == sampling_result.neg_inds
        bbox_targets0 == [j \in 1..num_valid_anchors |-> ZeroBox]
        bbox_weights0 == [j \in 1..num_valid_anchors |-> ZeroBox]
        labels0 == new_full_labels(num_valid_anchors)
        label_weights0 == [j \in 1..num_valid_anchors |-> 0]
        has_pos == Len(pos_inds) > 0
        bbox_targets == IF has_pos
                        THEN index_put(bbox_targets0, pos_inds, sampling_result.pos_gt_bboxes)
                        ELSE bbox_targets0
        bbox_weights == IF has_pos THEN index_fill(bbox_weights0, pos_inds, OneBox)
                        ELSE bbox_weights0
        labels == IF ~has_pos THEN labels0
                  ELSE IF gt_labels.none THEN index_fill(labels0, pos_inds, 0)
                  ELSE index_put(labels0, pos_inds,
                                 [j \in 1..Len(pos_inds) |->
                                    gt_labels.v[sampling_result.pos_assigned_gt_inds[j]]])
        label_weights1 == IF ~has_pos THEN label_weights0
                          ELSE IF pos_weight <= 0 THEN index_fill(label_weights0, pos_inds, 1)
                          ELSE index_fill(label_weights0, pos_inds, pos_weight)
        label_weights == IF Len(neg_inds) > 0 THEN index_fill(label_weights1, neg_inds, 1)
                         ELSE label_weights1
    IN [labels |-> labels, label_weights |-> label_weights,
        bbox_targets |-> bbox_targets, bbox_weights |-> bbox_weights,
        pos_inds |-> pos_inds, neg_inds |-> neg_inds]

get_target_single(flat_anchors, valid_flags, num_level_anchors, img, unmap_out) ==
    LET inside_flags == anchor_inside_flags(flat_anchors, valid_flags,
                                            img.img_shape, allowed_border)
    IN IF ~ \E p \in 1..Len(inside_flags) : inside_flags[p]
       THEN TargetSentinel
       ELSE
       LET keep == nonzero(inside_flags)
           anchors == [j \in 1..Len(keep) |-> flat_anchors[keep[j]]]
           sampling_result == sample(img.assign_pos, img.gt_bboxes)
           sampling_result_neg == sample(img.assign_neg, img.gt_bboxes)
           num_valid_anchors == Len(anchors)
           s == stream_targets(num_valid_anchors, sampling_result, img.gt_labels)
           n == stream_targets(num_valid_anchors, sampling_result_neg, img.gt_labels)
           num_total_anchors == Len(flat_anchors)
           U(data, fill) == IF unmap_out
                            THEN unmap(data, num_total_anchors, inside_flags, fill)
                            ELSE data
           UL(labels) == IF unmap_out
                         THEN unmap_labels(labels, num_total_anchors, inside_flags)
                         ELSE labels
       IN << Some(U(anchors, ZeroBox)),
             Some(UL(s.labels)),
             Some(U(s.label_weights, 0)),
             Some(U(s.bbox_targets, ZeroBox)),
             Some(U(s.bbox_weights, ZeroBox)),
             Some(s.pos_inds),
             Some(s.neg_inds),
             Some(UL(n.labels)),
             Some(U(n.label_weights, 0)),
             Some(U(n.bbox_targets, ZeroBox)),
             Some(U(n.bbox_weights, ZeroBox)),
             Some(n.pos_inds),
             Some(n.neg_inds),
             Some(U(img.assigned_neg, 0)) >>

----------------------------------------------------------------------------
(* GFLHead.get_targets *)

\* The level sizes taken in the reverse order
num_level_anchors_reversed(anchor_list0) ==
    [l \in 1..Len(anchor_list0) |-> Len(anchor_list0[Len(anchor_list0) + 1 - l])]

\* num_level_anchors = [anchors.size(0) for anchors in anchor_list[0]]
num_level_anchors_of(anchor_list0) ==
    [l \in 1..Len(anchor_list0) |-> Len(anchor_list0[l])]

\* The count without the floor at 1 per image
num_total_unfloored(inds_list) ==
    SumSeq([i \in 1..Len(inds_list) |-> Len(inds_list[i])])

\* sum([max(inds.numel(), 1) for inds in inds_list])
num_total(inds_list) ==
    SumSeq([i \in 1..Len(inds_list) |-> Max(Len(inds_list[i]), 1)])

NoTargets(kind, results) ==
    [kind |-> kind, per_image |-> results, num_level_anchors |-> <<>>,
     anchors_list |-> <<>>, labels_list |-> <<>>, label_weights_list |-> <<>>,
     bbox_targets_list |-> <<>>, bbox_weights_list |-> <<>>,
     num_total_pos |-> 0, num_total_neg |-> 0,
     labels_list_neg |-> <<>>, label_weights_list_neg |-> <<>>,
     bbox_targets_list_neg |-> <<>>, bbox_weights_list_neg |-> <<>>,
     num_total_pos_neg |-> 0, num_total_neg_neg |-> 0,
     assigned_neg_list |-> <<>>]

\* The value get_targets returns (kind "ok": the 14-tuple, "None": None) or
\* the exception it raises, given the already concatenated per-image inputs.
get_targets(flat_anchor_list, flat_valid_list, num_level_anchors, ims, unmap_out) ==
    LET num_imgs == Len(ims)
        results == [i \in 1..num_imgs |->
                      get_target_single(flat_anchor_list[i], flat_valid_list[i],
                                        num_level_anchors, ims[i], unmap_out)]
        z == multi_apply(results)
        all(k) == [i \in 1..num_imgs |-> z[k][i].v]
        L(k) == images_to_levels(all(k), num_level_anchors)
    IN IF Len(z) # 14 THEN NoTargets("ValueError", results)
       ELSE IF \E i \in 1..num_imgs : z[2][i].none THEN NoTargets("None", results)
       ELSE IF \E i, j \in 1..num_imgs : Len(z[1][i].v) # Len(z[1][j].v)
       THEN NoTargets("RuntimeError", results)
       ELSE [kind |-> "ok", per_image |-> results,
             num_level_anchors |-> num_level_anchors,
             anchors_list |-> L(1), labels_list |-> L(2),
             label_weights_list |-> L(3), bbox_targets_list |-> L(4),
             bbox_weights_list |-> L(5),
             num_total_pos |-> num_total(all(6)),
             num_total_neg |-> num_total(all(7)),
             labels_list_neg |-> L(8), label_weights_list_neg |-> L(9),
             bbox_targets_list_neg |-> L(10), bbox_weights_list_neg |-> L(11),
             num_total_pos_neg |-> num_total(all(12)),
             num_total_neg_neg |-> num_total(all(13)),
             assigned_neg_list |-> L(14)]

----------------------------------------------------------------------------
(* Inputs *)

GtBox(k) == <<k, k, k + 2, k + 2>>

FlagSeqs(n) == [1..n -> BOOLEAN]
ValidFlagLists ==
    {f \in [Levels -> UNION {FlagSeqs(featmap_sizes[l]) : l \in Levels}] :
        \A l \in Levels : Len(f[l]) = featmap_sizes[l]}

GtLabelChoices(g) == {None} \cup {Some(gl) : gl \in [1..g -> 0..(num_classes - 1)]}

\* Every image with the given flags, shape and number of ground-truth boxes;
\* the assigners' outcomes range over every matching of the kept anchors.
ImagesFor(vf, sh, g) ==
    LET inside == anchor_inside_flags(torch_cat(get_anchors), torch_cat(vf), sh,
                                      allowed_border)
        nv == Len(nonzero(inside))
    IN {[valid_flags |-> vf, img_shape |-> sh,
         gt_bboxes |-> [k \in 1..g |-> GtBox(k)], gt_labels |-> gl,
         assign_pos |-> ap, assign_neg |-> an, assigned_neg |-> w] :
            gl \in GtLabelChoices(g), ap \in [1..nv -> 0..g],
            an \in [1..nv -> 0..g], w \in [1..nv -> AssignedNegVals]}

Images ==
    UNION {ImagesFor(vf, sh, g) : vf \in ValidFlagLists, sh \in ImgShapes, g \in GtCounts}

AllValid == [l \in Levels |-> [k \in 1..featmap_sizes[l] |-> TRUE]]
NoneValid == [l \in Levels |-> [k \in 1..featmap_sizes[l] |-> FALSE]]
TotalAnchors == SumSeq(featmap_sizes)

\* A few whole images: no anchor inside the border ("empty"), no ground truth
\* ("no_gt"), and one ground-truth box matched by the first anchor in the
\* positive stream and by the second in the negative stream ("matched").
PlainImage(kind) ==
    LET g == IF kind = "matched" THEN 1 ELSE 0
        nv == IF kind = "empty" THEN 0 ELSE TotalAnchors
    IN [valid_flags |-> IF kind = "empty" THEN NoneValid ELSE AllValid,
        img_shape |-> <<5, 5>>,
        gt_bboxes |-> [k \in 1..g |-> GtBox(k)],
        gt_labels |-> Some([k \in 1..g |-> 0]),
        assign_pos |-> [j \in 1..nv |-> IF g = 1 /\ j = 1 THEN 1 ELSE 0],
        assign_neg |-> [j \in 1..nv |-> IF g = 1 /\ j = 2 THEN 1 ELSE 0],
        assigned_neg |-> [j \in 1..nv |-> IF g = 1 /\ j = 2 THEN 1 ELSE 0]]

PlainImages == {PlainImage(kind) : kind \in {"empty", "no_gt", "matched"}}

SeqsUpTo(S, n) == UNION {[1..m -> S] : m \in 1..n}

\* Batches of get_targets: a first image of any kind, then plain ones.
RichBatches ==
    {<<first>> \o rest : first \in Images,
                         rest \in {<<>>} \cup SeqsUpTo(PlainImages, MaxImgs - 1)}

----------------------------------------------------------------------------
(* Floating-point scalars: a finite value is n / d with d > 0; d = 0 is what *)
(* a float division by zero leaves, nan (0 / 0) or inf (x / 0).              *)

Frac(n, d) == [n |-> n, d |-> d]
IsFinite(x) == x.d > 0
IsNaN(x) == x.d = 0 /\ x.n = 0
IsExactZero(x) == x.d > 0 /\ x.n = 0
IsPositive(x) == x.d > 0 /\ x.n > 0
\* x / y for y >= 0
FracDiv(x, y) == Frac(x.n * y.d, x.d * y.n)
\* a finite x with x >= 1
AtLeastOne(x) == x.d > 0 /\ x.n >= x.d
\* max(x, 1.0) for a finite x
MaxOne(x) == IF x.n < x.d THEN Frac(x.d, x.d) ELSE x

\* mmdet.core.reduce_mean: all_reduce(tensor / world_size, SUM); the tensor
\* itself when torch.distributed is not initialised (a single worker)
reduce_mean(operands) == Frac(SumSeq(operands), Len(operands))

----------------------------------------------------------------------------
(* Loss kernels (loss_bbox, loss_dfl, loss_cls are built from configuration) *)

\* A weighted loss kernel: sum(elementwise_loss * weight) / avg_factor, with
\* a unit elementwise loss; the weight must have one entry per prediction.
weighted_loss(num_pred, weight, factor) ==
    IF Len(weight) # num_pred
    THEN [err |-> "RuntimeError", val |-> Frac(0, 1)]
    ELSE [err |-> "", val |-> Frac(SumSeq(weight), factor)]

\* weight[:, None].expand(-1, 4).reshape(-1)
expand4(weight) == [q \in 1..(4 * Len(weight)) |-> weight[((q - 1) \div 4) + 1]]

\* The quality focal loss over every anchor of the level, normalised by avg_factor.
loss_cls_kernel(labels, label_weights, factor) ==
    [num_anchors |-> Len(labels), weight_sum |-> SumSeq(label_weights),
     avg_factor |-> factor]

----------------------------------------------------------------------------
(* Rational arithmetic for decoded values: [n, d] in lowest terms, d > 0 *)

Abs(a) == IF a < 0 THEN -a ELSE a

RECURSIVE GCD(_, _)
GCD(a, b) == IF b = 0 THEN a ELSE GCD(b, a % b)

Rat(n, d) == LET g == GCD(Abs(n), d) IN [n |-> n \div g, d |-> d \div g]
RatInt(k) == Rat(k, 1)
RatAdd(a, b) == Rat(a.n * b.d + b.n * a.d, a.d * b.d)
RatSub(a, b) == Rat(a.n * b.d - b.n * a.d, a.d * b.d)
RatMul(a, b) == Rat(a.n * b.n, a.d * b.d)
\* a / b for b > 0
RatDiv(a, b) == Rat(a.n * b.d, a.d * b.n)
RatLe(a, b) == a.n * b.d <= b.n * a.d
RatLt(a, b) == a.n * b.d < b.n * a.d
RatMin(a, b) == IF RatLe(a, b) THEN a ELSE b
RatMax(a, b) == IF RatLe(a, b) THEN b ELSE a

RECURSIVE RatSum(_)
RatSum(s) == IF s = <<>> THEN RatInt(0) ELSE RatAdd(Head(s), RatSum(Tail(s)))

----------------------------------------------------------------------------
(* Integral *)

\* Bins that start at 1 instead of 0
project_from_one == tensor([i \in 1..(reg_max + 1) |-> i])

\* self.project = torch.linspace(0, reg_max, reg_max + 1)
project == tensor([i \in 1..(reg_max + 1) |-> i - 1])

\* exp(d) for d <= 0 in thousandths, rounded; 0 once it rounds to nothing
exp_table == <<1000, 368, 135, 50, 18, 7, 2, 1>>
exp(d) == IF -d < Len(exp_table) THEN exp_table[1 - d] ELSE 0

\* tensor.reshape(-1, cols) of a flat row-major tensor
reshape(flat, cols) ==
    tensor([r \in 1..(Len(flat) \div cols) |-> SubSeq(flat, (r - 1) * cols + 1, r * cols)])

\* F.softmax(row): exp(row - max(row)) / sum
softmax(row) ==
    LET m == CHOOSE v \in {row[i] : i \in 1..Len(row)} :
                 \A i \in 1..Len(row) : row[i] <= v
        e == tensor([i \in 1..Len(row) |-> exp(row[i] - m)])
    IN tensor([i \in 1..Len(row) |-> Rat(e[i], SumSeq(e))])

\* F.linear(p, weight) for a 1-d weight: the dot product
linear(p, weight) ==
    RatSum(tensor([i \in 1..Len(p) |-> RatMul(p[i], RatInt(weight[i]))]))

\* Integral.forward
Integral_forward(x) ==
    LET rows == reshape(torch_cat(x), reg_max + 1)
        sm == tensor([r \in 1..Len(rows) |-> softmax(rows[r])])
        o == tensor([r \in 1..Len(sm) |-> linear(sm[r], project)])
    IN [softmax |-> sm, out |-> reshape(o, 4)]

forward ==
    /\ integral_pc = "forward"
    /\ integral_out' = Integral_forward(integral_x)
    /\ integral_pc' = "returned"
    /\ UNCHANGED <<integral_x, bboxes_vars, head_vars, world, pc, error, targets_vars, loss_vars>>

\* The logits of one side of a box: all mass on the first bin, on the last
\* bin, on the second bin, or no preference
SideLogits(kind) ==
    tensor([i \in 1..(reg_max + 1) |->
        CASE kind = "low" -> IF i = 1 THEN 8 ELSE 0
          [] kind = "high" -> IF i = reg_max + 1 THEN 8 ELSE 0
          [] kind = "second" -> IF i = 2 THEN 8 ELSE 0
          [] OTHER -> 0])
Logits == {-2, 0, 3}
RichSides == [1..(reg_max + 1) -> Logits]
PlainSides == {SideLogits(kind) : kind \in {"low", "high", "flat"}}
RichRows == {s1 \o s2 \o s3 \o s4 :
                s1 \in RichSides, s2 \in PlainSides, s3 \in PlainSides, s4 \in PlainSides}
PlainRows == {s \o s \o s \o s : s \in PlainSides}
IntegralInputs ==
    {<<r>> \o t : r \in RichRows, t \in {<<>>} \cup SeqsUpTo(PlainRows, MaxRows - 1)}

IntegralIdle ==
    /\ integral_pc = "idle"
    /\ integral_x = <<>>
    /\ integral_out = [softmax |-> <<>>, out |-> <<>>]

----------------------------------------------------------------------------
(* Decoding of predicted boxes *)

\* torch.sigmoid, from the same rounded exponentials
sigmoid(v) ==
    LET e == exp(-Abs(v))
    IN IF v >= 0 THEN Rat(1000, 1000 + e) ELSE Rat(e, 1000 + e)

\* GFLHead.anchor_center
anchor_center(anchors) ==
    tensor([k \in 1..Len(anchors) |->
        <<Rat(anchors[k][1] + anchors[k][3], 2), Rat(anchors[k][2] + anchors[k][4], 2)>>])

\* mmdet.core.distance2bbox on a batch: points[b][j], distance[b][j]; with
\* max_shape the x coordinates are clamped to [0, w] and the y to [0, h]
distance2bbox(points, distance, max_shape) ==
    tensor([b \in 1..Len(distance) |->
        tensor([j \in 1..Len(distance[b]) |->
            LET pt == points[b][j]
                d == distance[b][j]
                box == <<RatSub(pt[1], d[1]), RatSub(pt[2], d[2]),
                         RatAdd(pt[1], d[3]), RatAdd(pt[2], d[4])>>
                hi(c) == RatInt(max_shape.v[b][IF c \in {1, 3} THEN 2 ELSE 1])
            IN IF max_shape.none THEN box
               ELSE tensor([c \in 1..4 |-> RatMin(RatMax(box[c], RatInt(0)), hi(c))])])])

----------------------------------------------------------------------------
(* GFLHead.loss_single *)

\* No condition on the stride
any_stride(stride) == TRUE

\* assert stride[0] == stride[1]
square_stride(stride) == stride[1] = stride[2]

\* overlap / max(union, eps) for a union that is 0 or more
overlap_ratio(overlap, union) ==
    IF RatLt(RatInt(0), union) THEN RatDiv(overlap, union) ELSE RatInt(0)

\* mmdet.core.bbox_overlaps(is_aligned=True): the IoU of each pair
\* (bboxes1[j], bboxes2[j]); the union is clamped from below by eps, so an
\* empty union gives 0
bbox_overlaps(bboxes1, bboxes2) ==
    tensor([j \in 1..Len(bboxes1) |->
        LET a == bboxes1[j]
            b == bboxes2[j]
            zero == RatInt(0)
            area(x) == RatMul(RatSub(x[3], x[1]), RatSub(x[4], x[2]))
            iw == RatMax(zero, RatSub(RatMin(a[3], b[3]), RatMax(a[1], b[1])))
            ih == RatMax(zero, RatSub(RatMin(a[4], b[4]), RatMax(a[2], b[2])))
        IN overlap_ratio(RatMul(iw, ih),
                         RatSub(RatAdd(area(a), area(b)), RatMul(iw, ih)))])

\* The overlaps of the anchors inds: their predicted boxes, decoded from the
\* anchor centres and the integral of the box map in stride units, against
\* their box targets in stride units
decoded_overlaps(anchors, logits, bbox_targets, stride, inds) ==
    bbox_overlaps(
        \* distance2bbox(anchor_center(anchors[inds]) / stride[0],
        \*               self.integral(bbox_pred[inds]))
        distance2bbox(
            <<tensor([j \in 1..Len(inds) |->
                tensor([c \in 1..2 |->
                    RatDiv(anchor_center(<<anchors[inds[j]]>>)[1][c], RatInt(stride[1]))])])>>,
            <<Integral_forward(tensor([j \in 1..Len(inds) |-> logits])).out>>,
            None)[1],
        \* bbox_targets[inds] / stride[0]
        tensor([j \in 1..Len(inds) |->
            tensor([c \in 1..4 |-> Rat(bbox_targets[inds[j]][c], stride[1])])]))

\* The overlaps of the negative stream written into score as well
score_neg_written(score, pos_inds_neg, overlaps_neg) ==
    index_put(score, pos_inds_neg, overlaps_neg)

\* lines 317-322 are commented out: the negative stream leaves score as it is
score_neg(score, pos_inds_neg, overlaps_neg) == score

\* A weight of one where there is no foreground anchor
new_tensor_1 == <<1>>

\* bbox_pred.new_tensor(0)
new_tensor_0 == <<0>>

\* (probability < 1).float()
below_one(p) == IF p < 1 THEN 1 ELSE 0

\* (cls_score.detach().sigmoid().max(dim=1)[0] < 0).float()
below_zero(p) == IF p < 0 THEN 1 ELSE 0

\* The locals of a loss_single call
Locals(pos_inds, pos_inds_neg, remain_inds, assigned_neg, score, weight_targets_neg) ==
    [pos_inds |-> pos_inds, pos_inds_neg |-> pos_inds_neg,
     remain_inds |-> remain_inds, assigned_neg |-> assigned_neg,
     score |-> score, weight_targets_neg |-> weight_targets_neg]

LevelFailure(e, locals) ==
    [err |-> e, loss_cls |-> loss_cls_kernel(<<>>, <<>>, Frac(1, 1)),
     loss_bbox |-> Frac(0, 1), loss_dfl |-> Frac(0, 1), weight_sum |-> 0,
     loss_bbox_neg |-> Frac(0, 1), loss_dfl_neg |-> Frac(0, 1), weight_sum_neg |-> 0,
     num_pos |-> 0, num_pos_neg |-> 0, locals |-> locals]

\* What a call hands back: its tuple, or the exception raised with the locals
\* as they were
LevelReturn(err, tuple) ==
    IF err # "" THEN LevelFailure(err, tuple.locals) ELSE tuple

\* The tensors arrive as (N, anchors of the level); reshape(-1) lays the images
\* one after the other.  prob is the detached sigmoid score map's maximum over
\* the classes and logits the 4 * (reg_max + 1) values of bbox_pred, each the
\* same at every anchor.
loss_single(anchors_2d, prob, logits, labels_2d, label_weights_2d, bbox_targets_2d, labels_neg_2d, bbox_targets_neg_2d, stride, assigned_neg_2d, nts, nts_neg) ==
    IF ~square_stride(stride)
    THEN LevelFailure("AssertionError", Locals(<<>>, <<>>, <<>>, <<>>, <<>>, <<>>))
    ELSE
    LET anchors == torch_cat(anchors_2d)
        bbox_targets == torch_cat(bbox_targets_2d)
        labels == torch_cat(labels_2d)
        label_weights == torch_cat(label_weights_2d)
        bbox_targets_neg == torch_cat(bbox_targets_neg_2d)
        labels_neg == torch_cat(labels_neg_2d)
        assigned_neg == torch_cat(assigned_neg_2d)
        bg_class_ind == num_classes
        pos_inds == nonzero([p \in 1..Len(labels) |->
                                labels[p] >= 0 /\ labels[p] < bg_class_ind])
        pos_inds_neg == nonzero([p \in 1..Len(labels_neg) |->
                                    labels_neg[p] >= 0 /\ labels_neg[p] < bg_class_ind])
        score0 == tensor([p \in 1..Len(labels) |-> RatInt(0)])
        remain_inds == nonzero([p \in 1..Len(assigned_neg) |-> assigned_neg[p] > 0])
        max_prob == [p \in 1..Len(labels) |-> prob]
        has_pos == Len(pos_inds) > 0
        weight_targets == IF has_pos
                          THEN [j \in 1..Len(pos_inds) |-> max_prob[pos_inds[j]]]
                          ELSE new_tensor_0
        score1 == IF has_pos
                  THEN index_put(score0, pos_inds,
                                 decoded_overlaps(anchors, logits, bbox_targets, stride,
                                                  pos_inds))
                  ELSE score0
        loss_bbox == IF has_pos
                     THEN weighted_loss(Len(pos_inds), weight_targets, 1)
                     ELSE [err |-> "", val |-> Frac(0, 1)]
        loss_dfl == IF has_pos
                    THEN weighted_loss(4 * Len(pos_inds), expand4(weight_targets), 4)
                    ELSE [err |-> "", val |-> Frac(0, 1)]
        has_neg == Len(pos_inds_neg) > 0
        \* a sigmoid is never negative
        weight_targetss == [p \in 1..Len(labels) |-> below_zero(max_prob[p])]
        weight_targets_neg ==
            IF has_neg
            THEN [j \in 1..Len(remain_inds) |->
                    weight_targetss[remain_inds[j]] + assigned_neg[remain_inds[j]]]
            ELSE new_tensor_0
        score == IF has_neg
                 THEN score_neg(score1, pos_inds_neg,
                                decoded_overlaps(anchors, logits, bbox_targets_neg, stride,
                                                 pos_inds_neg))
                 ELSE score1
        bbox_neg == IF has_neg
                    THEN weighted_loss(Len(pos_inds_neg), weight_targets_neg, 1)
                    ELSE [err |-> "", val |-> Frac(0, 1)]
        dfl_neg == IF has_neg
                   THEN weighted_loss(4 * Len(pos_inds_neg), expand4(weight_targets_neg), 4)
                   ELSE [err |-> "", val |-> Frac(0, 1)]
        \* 0.125 * loss
        eighth(x) == Frac(x.n, 8 * x.d)
        \* the first kernel that raises ends the call
        err == IF loss_bbox.err # "" THEN loss_bbox.err ELSE bbox_neg.err
    IN LevelReturn(err,
                   [err |-> "",
                    loss_cls |-> loss_cls_kernel(labels, label_weights, nts),
                    loss_bbox |-> loss_bbox.val,
                    loss_dfl |-> loss_dfl.val,
                    weight_sum |-> SumSeq(weight_targets),
                    loss_bbox_neg |-> IF has_neg THEN eighth(bbox_neg.val) ELSE bbox_neg.val,
                    loss_dfl_neg |-> IF has_neg THEN eighth(dfl_neg.val) ELSE dfl_neg.val,
                    weight_sum_neg |-> SumSeq(weight_targets_neg),
                    num_pos |-> Len(pos_inds), num_pos_neg |-> Len(pos_inds_neg),
                    locals |-> Locals(pos_inds, pos_inds_neg, remain_inds, assigned_neg,
                                      tensor(score), weight_targets_neg)])

----------------------------------------------------------------------------
(* GFLHead.loss: the order of its steps *)

\* The positive losses divided before the weight sum is reduced
loss_program_divide_first ==
    <<"get_targets", "reduce_pos", "reduce_pos_neg", "loss_single",
      "divide_pos", "reduce_avg", "reduce_avg_neg", "divide_neg", "returned_dict">>

loss_program ==
    <<"get_targets", "reduce_pos", "reduce_pos_neg", "loss_single",
      "reduce_avg", "divide_pos", "reduce_avg_neg", "divide_neg", "returned_dict">>

after(step) ==
    loss_program[(CHOOSE k \in 1..Len(loss_program) : loss_program[k] = step) + 1]

ReduceSteps == {"reduce_pos", "reduce_pos_neg", "reduce_avg", "reduce_avg_neg"}
NumReductions == Cardinality(ReduceSteps)
Terminal == {"returned_dict", "returned_none", "raised"}

Event(ev, step, lvl) == [ev |-> ev, step |-> step, lvl |-> lvl]
Log(w, ev, step, lvl) == trace' = [trace EXCEPT ![w] = Append(@, Event(ev, step, lvl))]

\* The collective calls a worker has entered, in order
calls(w) == SelectSeq(trace[w], LAMBDA e : e.ev = "join")
returns(w) == SelectSeq(trace[w], LAMBDA e : e.ev = "reduced")

Workers == 1..world

----------------------------------------------------------------------------
(* Actions *)

\* loss, lines 398-411: get_anchors, then get_targets, whose lines 592-595
\* replace the entries of its list arguments by the concatenated tensors.
call_get_targets(w) ==
    /\ pc[w] = "get_targets"
    /\ \E num_level_anchors \in {num_level_anchors_of(anchor_list[w][1])} :
       \E al \in {[i \in 1..Len(imgs[w]) |-> torch_cat(anchor_list[w][i])]} :
       \E vl \in {[i \in 1..Len(imgs[w]) |-> torch_cat(valid_flag_list[w][i])]} :
       \E r \in {get_targets(al, vl, num_level_anchors, imgs[w], unmap_outputs[w])} :
          /\ anchor_list' = [anchor_list EXCEPT ![w] = al]
          /\ valid_flag_list' = [valid_flag_list EXCEPT ![w] = vl]
          /\ arg_entries' = [arg_entries EXCEPT ![w] = "tensors"]
          /\ targets' = [targets EXCEPT ![w] = r]
          /\ pc' = [pc EXCEPT ![w] =
                      CASE r.kind = "ok" -> after("get_targets")
                        [] r.kind = "None" -> "returned_none"
                        [] OTHER -> "raised"]
          /\ error' = [error EXCEPT ![w] =
                         IF r.kind \in {"ok", "None"} THEN "" ELSE r.kind]
    /\ Log(w, "call", "get_targets", 0)
    /\ UNCHANGED <<integral_vars, bboxes_vars, head_vars, world, imgs, unmap_outputs,
                   targets_again, cls_prob,
                   bbox_preds, level_locals, level_frames, red, num_total_samples,
                   num_total_samples_neg, level_results, avg_factor,
                   avg_factor_neg, losses>>

\* get_targets called once more with the argument objects of the first call.
\* Where the entries are tensors already, line 588 takes the size of each
\* anchor row for a level size and torch.cat of a tensor raises TypeError at
\* line 594, before anything is stored.
call_get_targets_again(w) ==
    /\ pc[w] # "get_targets"
    /\ targets_again[w].kind = "pending"
    /\ LET num_level_anchors == num_level_anchors_of(anchor_list[w][1])
           al == [i \in 1..Len(imgs[w]) |-> torch_cat(anchor_list[w][i])]
           vl == [i \in 1..Len(imgs[w]) |-> torch_cat(valid_flag_list[w][i])]
       IN IF arg_entries[w] = "tensors"
          THEN /\ targets_again' = [targets_again EXCEPT ![w] =
                      [NoTargets("TypeError", <<>>) EXCEPT
                          !.num_level_anchors = num_level_anchors]]
               /\ UNCHANGED <<anchor_list, valid_flag_list>>
          ELSE /\ targets_again' = [targets_again EXCEPT ![w] =
                      get_targets(al, vl, num_level_anchors, imgs[w], unmap_outputs[w])]
               /\ anchor_list' = [anchor_list EXCEPT ![w] = al]
               /\ valid_flag_list' = [valid_flag_list EXCEPT ![w] = vl]
    /\ UNCHANGED <<integral_vars, bboxes_vars, head_vars, world, pc, error, imgs,
                   unmap_outputs, targets, arg_entries, loss_vars>>

\* What a worker hands to its next reduce_mean call
operand(w) ==
    CASE pc[w] = "reduce_pos" -> targets[w].num_total_pos
      [] pc[w] = "reduce_pos_neg" -> targets[w].num_total_pos_neg
      [] pc[w] = "reduce_avg" ->
            SumSeq([l \in 1..Len(level_results[w]) |-> level_results[w][l].weight_sum])
      [] pc[w] = "reduce_avg_neg" ->
            SumSeq([l \in 1..Len(level_results[w]) |-> level_results[w][l].weight_sum_neg])

\* A worker enters its next collective call and blocks in it.
reduce_join(w) ==
    /\ pc[w] \in ReduceSteps
    /\ Len(calls(w)) = Len(returns(w))
    /\ red' = [red EXCEPT ![Len(calls(w)) + 1][w] = Some(operand(w))]
    /\ Log(w, "join", pc[w], 0)
    /\ UNCHANGED <<integral_vars, bboxes_vars, head_vars, world, pc, error, targets_vars, cls_prob,
                   bbox_preds, level_locals, level_frames, num_total_samples,
                   num_total_samples_neg, level_results, avg_factor,
                   avg_factor_neg, losses>>

\* The collective call completes once every worker has entered it.
reduce_return(w) ==
    /\ pc[w] \in ReduceSteps
    /\ Len(calls(w)) = Len(returns(w)) + 1
    /\ \A v \in Workers : ~red[Len(calls(w))][v].none
    /\ LET m == reduce_mean([v \in Workers |-> red[Len(calls(w))][v].v])
       IN /\ num_total_samples' =
                IF pc[w] = "reduce_pos"
                THEN [num_total_samples EXCEPT ![w] = MaxOne(m)]
                ELSE num_total_samples
          /\ num_total_samples_neg' =
                IF pc[w] = "reduce_pos_neg"
                THEN [num_total_samples_neg EXCEPT ![w] = MaxOne(m)]
                ELSE num_total_samples_neg
          /\ avg_factor' =
                IF pc[w] = "reduce_avg" THEN [avg_factor EXCEPT ![w] = m]
                ELSE avg_factor
          /\ avg_factor_neg' =
                IF pc[w] = "reduce_avg_neg" THEN [avg_factor_neg EXCEPT ![w] = m]
                ELSE avg_factor_neg
    /\ pc' = [pc EXCEPT ![w] = after(pc[w])]
    /\ Log(w, "reduced", pc[w], 0)
    /\ UNCHANGED <<integral_vars, bboxes_vars, head_vars, world, error, targets_vars, cls_prob,
                   bbox_preds, level_locals, level_frames, red, level_results, losses>>

\* A scalar that grows with every level started
scalar_counting_levels(scalar, started) == Frac(scalar.n + started * scalar.d, scalar.d)

\* num_total_samples=num_total_samples: every level is handed the same scalar
level_scalar(scalar, started) == scalar

\* multi_apply(self.loss_single, ...): one feature level after the other
loss_single_step(w) ==
    /\ pc[w] = "loss_single"
    /\ \E l \in {Len(level_results[w]) + 1} :
       \E t \in {targets[w]} :
       \E r \in {loss_single(t.anchors_list[l], cls_prob[w], bbox_preds[w],
                             t.labels_list[l], t.label_weights_list[l],
                             t.bbox_targets_list[l], t.labels_list_neg[l],
                             t.bbox_targets_list_neg[l], anchor_generator_strides[l],
                             t.assigned_neg_list[l],
                             level_scalar(num_total_samples[w], l - 1),
                             level_scalar(num_total_samples_neg[w], l - 1))} :
       \E all \in {Append(level_results[w], r)} :
          /\ Log(w, "loss_single", "", l)
          /\ level_locals' = [level_locals EXCEPT ![w] = Append(@, r.locals)]
          /\ IF r.err # ""
             THEN /\ pc' = [pc EXCEPT ![w] = "raised"]
                  /\ error' = [error EXCEPT ![w] = r.err]
                  /\ UNCHANGED <<level_results, losses>>
             ELSE /\ level_results' = [level_results EXCEPT ![w] = all]
                  /\ pc' = [pc EXCEPT ![w] =
                              IF l = Len(strides) THEN after("loss_single") ELSE @]
                  /\ losses' = [losses EXCEPT ![w].loss_cls =
                                  IF l = Len(strides)
                                  THEN [k \in 1..l |-> all[k].loss_cls] ELSE @]
                  /\ UNCHANGED error
    /\ UNCHANGED <<integral_vars, bboxes_vars, head_vars, world, targets_vars, cls_prob,
                   bbox_preds, level_frames, red, num_total_samples,
                   num_total_samples_neg, avg_factor, avg_factor_neg>>

\* The levels of multi_apply run independently of one another, in any order:
\* a call starts by taking its arguments ...
level_start(w, l) ==
    /\ pc[w] = "loss_single"
    /\ level_frames[w][l].status = "idle"
    /\ LET started == Cardinality({k \in Levels : level_frames[w][k].status # "idle"})
       IN level_frames' = [level_frames EXCEPT ![w][l] =
            [status |-> "started",
             num_total_samples |-> level_scalar(num_total_samples[w], started),
             num_total_samples_neg |-> level_scalar(num_total_samples_neg[w], started)]]
    /\ Log(w, "start", "", l)
    /\ UNCHANGED <<integral_vars, bboxes_vars, head_vars, world, pc, error, targets_vars,
                   cls_prob, bbox_preds, level_locals, red, num_total_samples,
                   num_total_samples_neg, level_results, avg_factor, avg_factor_neg,
                   losses>>

\* ... and ends by returning its tuple, or raising; multi_apply collects the
\* tuples by level once every call has returned
level_finish(w, l) ==
    /\ pc[w] = "loss_single"
    /\ level_frames[w][l].status = "started"
    /\ \E t \in {targets[w]} :
       \E f \in {level_frames[w][l]} :
       \E r \in {loss_single(t.anchors_list[l], cls_prob[w], bbox_preds[w],
                             t.labels_list[l], t.label_weights_list[l],
                             t.bbox_targets_list[l], t.labels_list_neg[l],
                             t.bbox_targets_list_neg[l], anchor_generator_strides[l],
                             t.assigned_neg_list[l],
                             f.num_total_samples, f.num_total_samples_neg)} :
       \E frames \in {[level_frames[w] EXCEPT ![l] =
                        [status |-> "returned", num_total_samples |-> f.num_total_samples,
                         num_total_samples_neg |-> f.num_total_samples_neg, out |-> r]]} :
       \E all_returned \in {\A k \in Levels : frames[k].status = "returned"} :
          /\ level_locals' = [level_locals EXCEPT ![w] = Append(@, r.locals)]
          /\ IF r.err # ""
             THEN /\ pc' = [pc EXCEPT ![w] = "raised"]
                  /\ error' = [error EXCEPT ![w] = r.err]
                  /\ UNCHANGED <<level_results, losses, level_frames>>
             ELSE /\ level_frames' = [level_frames EXCEPT ![w] = frames]
                  /\ level_results' = [level_results EXCEPT ![w] =
                                          IF all_returned
                                          THEN [k \in Levels |-> frames[k].out] ELSE @]
                  /\ pc' = [pc EXCEPT ![w] =
                              IF all_returned THEN after("loss_single") ELSE @]
                  /\ losses' = [losses EXCEPT ![w].loss_cls =
                                  IF all_returned
                                  THEN [k \in Levels |-> frames[k].out.loss_cls] ELSE @]
                  /\ UNCHANGED error
    /\ Log(w, "loss_single", "", l)
    /\ UNCHANGED <<integral_vars, bboxes_vars, head_vars, world, targets_vars, cls_prob,
                   bbox_preds, red, num_total_samples,
                   num_total_samples_neg, avg_factor, avg_factor_neg>>

\* lines 450-451
divide_pos(w) ==
    /\ pc[w] = "divide_pos"
    /\ losses' = [losses EXCEPT
            ![w].loss_bbox = [l \in 1..Len(level_results[w]) |->
                                FracDiv(level_results[w][l].loss_bbox, avg_factor[w])],
            ![w].loss_dfl = [l \in 1..Len(level_results[w]) |->
                                FracDiv(level_results[w][l].loss_dfl, avg_factor[w])]]
    /\ pc' = [pc EXCEPT ![w] = after("divide_pos")]
    /\ Log(w, "divide", "pos", 0)
    /\ UNCHANGED <<integral_vars, bboxes_vars, head_vars, world, error, targets_vars, cls_prob,
                   bbox_preds, level_locals, level_frames, red, num_total_samples,
                   num_total_samples_neg, level_results, avg_factor, avg_factor_neg>>

\* lines 456-466
divide_neg(w) ==
    /\ pc[w] = "divide_neg"
    /\ losses' = [losses EXCEPT
            ![w].loss_bbox_neg = [l \in 1..Len(level_results[w]) |->
                                FracDiv(level_results[w][l].loss_bbox_neg, avg_factor_neg[w])],
            ![w].loss_dfl_neg = [l \in 1..Len(level_results[w]) |->
                                FracDiv(level_results[w][l].loss_dfl_neg, avg_factor_neg[w])]]
    /\ pc' = [pc EXCEPT ![w] = after("divide_neg")]
    /\ Log(w, "divide", "neg", 0)
    /\ UNCHANGED <<integral_vars, bboxes_vars, head_vars, world, error, targets_vars, cls_prob,
                   bbox_preds, level_locals, level_frames, red, num_total_samples,
                   num_total_samples_neg, level_results, avg_factor, avg_factor_neg>>

----------------------------------------------------------------------------
(* Specifications *)

Probs == {0, 1}
PlainBatches == SeqsUpTo(PlainImages, MaxImgs)
PeerBatches == SeqsUpTo(PlainImages, 1)

----------------------------------------------------------------------------
(* _get_bboxes *)

\* Intersection over union of a and b exceeds thr (false for a 0/0 overlap)
iou_exceeds(a, b, thr) ==
    LET zero == RatInt(0)
        area(x) == RatMul(RatSub(x[3], x[1]), RatSub(x[4], x[2]))
        iw == RatMax(zero, RatSub(RatMin(a[3], b[3]), RatMax(a[1], b[1])))
        ih == RatMax(zero, RatSub(RatMin(a[4], b[4]), RatMax(a[2], b[2])))
        inter == RatMul(iw, ih)
        union == RatSub(RatAdd(area(a), area(b)), inter)
    IN RatLt(zero, union) /\ RatLt(RatMul(thr, union), inter)

\* Greedy suppression per class, best score first, earlier candidate on ties
RECURSIVE nms_greedy(_, _, _, _)
nms_greedy(cands, remaining, kept, iou_thr) ==
    IF remaining = {} THEN kept
    ELSE LET best == CHOOSE q \in remaining :
                        \A o \in remaining :
                            \/ RatLt(cands[o].score, cands[q].score)
                            \/ (cands[o].score = cands[q].score /\ q <= o)
             suppressed == \E i \in 1..Len(kept) :
                              /\ cands[kept[i]].label = cands[best].label
                              /\ iou_exceeds(cands[kept[i]].box, cands[best].box, iou_thr)
         IN nms_greedy(cands, remaining \ {best},
                       IF suppressed THEN kept ELSE Append(kept, best), iou_thr)

\* mmdet.core.multiclass_nms: (det_bboxes with the score appended, det_labels)
multiclass_nms(multi_bboxes, multi_scores, score_thr, nms_cfg, max_num) ==
    LET cands == tensor([q \in 1..(Len(multi_bboxes) * num_classes) |->
                    LET j == ((q - 1) \div num_classes) + 1
                        c == ((q - 1) % num_classes) + 1
                    IN [box |-> multi_bboxes[j], label |-> c - 1,
                        score |-> multi_scores[j][c]]])
        valid == {q \in 1..Len(cands) : RatLt(score_thr, cands[q].score)}
        keep == nms_greedy(cands, valid, <<>>, nms_cfg.iou_threshold)
        top == IF max_num > 0 /\ Len(keep) > max_num
               THEN SubSeq(keep, 1, max_num) ELSE keep
    IN << tensor([i \in 1..Len(top) |-> Append(cands[top[i]].box, cands[top[i]].score)]),
          tensor([i \in 1..Len(top) |-> cands[top[i]].label]) >>

\* The sequences whose i-th entry is drawn from sets[i]
RECURSIVE Product(_)
Product(sets) ==
    IF sets = <<>> THEN {<<>>}
    ELSE {<<h>> \o t : h \in Head(sets), t \in Product(Tail(sets))}

\* scores.max(-1) of one image at one level
max_scores(scores) ==
    tensor([k \in 1..Len(scores) |->
        CHOOSE v \in {scores[k][c] : c \in 1..Len(scores[k])} :
            \A c \in 1..Len(scores[k]) : RatLe(scores[k][c], v)])

\* What max_scores.topk(k) may return: k distinct positions, best first, none
\* left out that beats one taken
topk(values, k) ==
    {t \in [1..k -> 1..Len(values)] :
        /\ \A i \in 1..k : \A j \in (i + 1)..k :
              t[i] # t[j] /\ RatLe(values[t[j]], values[t[i]])
        /\ \A q \in 1..Len(values) :
              (\A i \in 1..k : t[i] # q) => RatLe(values[q], values[t[k]])}

\* cls_score.permute(0, 2, 3, 1).reshape(batch_size, -1, C).sigmoid()
level_scores(cls_score) ==
    tensor([b \in 1..Len(cls_score) |->
        tensor([k \in 1..Len(cls_score[b]) |->
            tensor([c \in 1..Len(cls_score[b][k]) |-> sigmoid(cls_score[b][k][c])])])])

\* if nms_pre > 0 and scores.shape[1] > nms_pre
prefilters(nms_pre, num_anchors) == nms_pre > 0 /\ num_anchors > nms_pre

\* Every topk_inds the levels can get: per level, per image, the positions
\* kept (all of them, in order, where the level is not pre-filtered)
topk_inds_choices(args) ==
    Product(tensor([l \in Levels |->
        Product(tensor([b \in 1..Len(args.img_shapes) |->
            LET n == Len(args.cls_scores[l][b])
            IN IF prefilters(args.cfg.nms_pre, n)
               THEN topk(max_scores(level_scores(args.cls_scores[l])[b]),
                         args.cfg.nms_pre)
               ELSE {tensor([k \in 1..n |-> k])}]))]))

\* No clamp handed to distance2bbox
max_shape_none(img_shapes) == None

\* max_shape=img_shapes
max_shape_arg(img_shapes) == Some(img_shapes)

\* Every row reading the first image
batch_inds_first(batch_size, topk_inds) ==
    tensor([b \in 1..batch_size |-> tensor([j \in 1..Len(topk_inds[b]) |-> 1])])

\* torch.arange(batch_size).view(-1, 1).expand_as(topk_inds)
batch_inds(batch_size, topk_inds) ==
    tensor([b \in 1..batch_size |-> tensor([j \in 1..Len(topk_inds[b]) |-> b])])

\* The body of the loop over levels for level l, given its topk_inds
decode_level(args, l, topk_inds) ==
    LET batch_size == Len(args.cls_scores[l])
        n == Len(args.cls_scores[l][1])
        scores == level_scores(args.cls_scores[l])
        integral == Integral_forward(torch_cat(args.bbox_preds[l])).out
        bbox_pred == reshape(tensor([r \in 1..(batch_size * n) |->
                                tensor([c \in 1..4 |->
                                    RatMul(integral[r][c], RatInt(anchor_generator_strides[l][1]))])]), n)
        filtered == prefilters(args.cfg.nms_pre, n)
        bi == batch_inds(batch_size, topk_inds)
        \* anchors[topk_inds, :], or anchors.expand_as(bbox_pred)
        anchors == tensor([b \in 1..batch_size |->
                      IF filtered
                      THEN tensor([j \in 1..Len(topk_inds[b]) |->
                              args.mlvl_anchors[l][topk_inds[b][j]]])
                      ELSE args.mlvl_anchors[l]])
        \* data[batch_inds, topk_inds, :]
        take(data) == IF filtered
                      THEN tensor([b \in 1..batch_size |->
                              tensor([j \in 1..Len(topk_inds[b]) |->
                                  data[bi[b][j]][topk_inds[b][j]]])])
                      ELSE data
        kept_pred == take(bbox_pred)
    IN [anchors |-> anchors,
        bbox_pred |-> kept_pred,
        bboxes |-> distance2bbox(
                      tensor([b \in 1..batch_size |-> anchor_center(anchors[b])]),
                      kept_pred,
                      max_shape_arg(args.img_shapes)),
        scores |-> take(scores)]

\* torch.cat(mlvl, dim=1): per image, the rows of every level in level order
cat_levels(mlvl) ==
    tensor([b \in 1..Len(mlvl[1]) |->
        torch_cat(tensor([l \in 1..Len(mlvl) |-> mlvl[l][b]]))])

\* batch_mlvl_bboxes /= batch_mlvl_bboxes.new_tensor(scale_factors).unsqueeze(1)
rescale_bboxes(batch_bboxes, scale_factors) ==
    tensor([b \in 1..Len(batch_bboxes) |->
        tensor([j \in 1..Len(batch_bboxes[b]) |->
            tensor([c \in 1..4 |->
                RatDiv(batch_bboxes[b][j][c], scale_factors[b][c])])])])

\* torch.cat([batch_mlvl_scores, padding], dim=-1): a zero background column
pad_scores(batch_scores) ==
    tensor([b \in 1..Len(batch_scores) |->
        tensor([j \in 1..Len(batch_scores[b]) |->
            Append(batch_scores[b][j], RatInt(0))])])

\* The detections of every image from the boxes and scores of the batch
batch_det_results(args, batch_bboxes, batch_scores) ==
    IF args.with_nms
    THEN tensor([b \in 1..Len(batch_bboxes) |->
            multiclass_nms(batch_bboxes[b], batch_scores[b], args.cfg.score_thr,
                           args.cfg.nms, args.cfg.max_per_img)])
    ELSE tensor([b \in 1..Len(batch_bboxes) |-> <<batch_bboxes[b], batch_scores[b]>>])

\* What follows the loop over levels, given what each level appended
batch_results(args, mlvl, batch_bboxes, batch_scores) ==
    [err |-> "",
     mlvl |-> mlvl,
     batch_mlvl_bboxes |-> batch_bboxes,
     batch_mlvl_scores |-> batch_scores,
     det_results |-> batch_det_results(args, batch_bboxes, batch_scores)]

\* The loop over levels has run: concatenation, rescaling and padding
after_levels(args, mlvl) ==
    batch_results(args, mlvl,
        IF args.rescale
        THEN rescale_bboxes(cat_levels(tensor([l \in Levels |-> mlvl[l].bboxes])),
                            args.scale_factors)
        ELSE cat_levels(tensor([l \in Levels |-> mlvl[l].bboxes])),
        pad_scores(cat_levels(tensor([l \in Levels |-> mlvl[l].scores]))))

\* GFLHead._get_bboxes for one outcome of the top-k selections
get_bboxes(args, topk_inds) ==
    LET batch_size == Len(args.cls_scores[1])
        \* the asserts of lines 507, 515 and 516
        asserts == /\ Len(args.cls_scores) = Len(args.bbox_preds)
                   /\ Len(args.bbox_preds) = Len(args.mlvl_anchors)
                   /\ \A l \in Levels :
                         /\ \A b \in 1..batch_size :
                               Len(args.cls_scores[l][b]) = Len(args.bbox_preds[l][b])
                         /\ square_stride(anchor_generator_strides[l])
    IN IF ~asserts
       THEN [err |-> "AssertionError", mlvl |-> <<>>, batch_mlvl_bboxes |-> <<>>,
             batch_mlvl_scores |-> <<>>, det_results |-> <<>>]
       ELSE after_levels(args,
                tensor([l \in Levels |-> decode_level(args, l, topk_inds[l])]))

call_get_bboxes ==
    /\ bboxes_pc = "get_bboxes"
    /\ \E topk_inds \in topk_inds_choices(bboxes_args) :
       \E r \in {get_bboxes(bboxes_args, topk_inds)} :
             /\ batch_mlvl_bboxes' = r.batch_mlvl_bboxes
             /\ batch_mlvl_scores' = r.batch_mlvl_scores
             /\ det_results' = r.det_results
             /\ mlvl_kept' = r.mlvl
             /\ bboxes_error' = r.err
             /\ bboxes_pc' = IF r.err = "" THEN "returned" ELSE "raised"
    /\ UNCHANGED <<bboxes_args, integral_vars, head_vars, world, pc, error,
                   targets_vars, loss_vars>>

\* test_cfg of the head, for a given nms_pre
test_cfg(nms_pre) ==
    [nms_pre |-> nms_pre, score_thr |-> Rat(1, 20),
     nms |-> [iou_threshold |-> Rat(3, 5)], max_per_img |-> 2]

\* The logits of the four sides of one anchor
BoxLogits(kinds) ==
    SideLogits(kinds[1]) \o SideLogits(kinds[2]) \o SideLogits(kinds[3])
        \o SideLogits(kinds[4])
RichBoxKinds ==
    {<<a, a, b, b>> : a \in {"low", "high", "flat"}, b \in {"low", "high", "flat"}}
FarBox == BoxLogits(<<"high", "high", "high", "high">>)
RichClsLogits == {<<3, -3>>, <<0, -3>>, <<-3, 0>>}
PlainClsLogits == {<<0, -3>>, <<-3, 3>>}
\* (w_scale, h_scale, w_scale, h_scale)
scale_factor(w, h) == <<w, h, w, h>>
ShapesAndScales ==
    {<< <<5, 5>>, scale_factor(Rat(1, 2), Rat(1, 2)) >>,
     << <<5, 4>>, scale_factor(Rat(1, 1), Rat(1, 1)) >>,
     << <<5, 5>>, scale_factor(Rat(2, 1), Rat(1, 1)) >>}
NmsPres == {-1, 1, 2}

\* The predictions for one image: the first anchor of the first level is
\* free, the others predict far sides
RichPredictions ==
    {[img_shape |-> p[1], scale_factor |-> p[2],
      cls |-> [l \in Levels |-> [k \in 1..featmap_sizes[l] |->
                  IF l = 1 /\ k = 1 THEN c1 ELSE IF l = 1 THEN c2 ELSE <<-3, 3>>]],
      reg |-> [l \in Levels |-> [k \in 1..featmap_sizes[l] |->
                  IF l = 1 /\ k = 1 THEN BoxLogits(kinds) ELSE FarBox]]] :
        p \in ShapesAndScales, kinds \in RichBoxKinds,
        c1 \in RichClsLogits, c2 \in PlainClsLogits}
PlainPredictions ==
    {[img_shape |-> <<5, 4>>, scale_factor |-> scale_factor(Rat(1, 2), Rat(1, 2)),
      cls |-> [l \in Levels |-> [k \in 1..featmap_sizes[l] |-> <<0, -3>>]],
      reg |-> [l \in Levels |-> [k \in 1..featmap_sizes[l] |-> FarBox]]]}
PredictionBatches ==
    {<<r>> \o t : r \in RichPredictions,
                  t \in {<<>>} \cup SeqsUpTo(PlainPredictions, MaxImgs - 1)}

\* The arguments of _get_bboxes for a batch of predictions
BBoxArgs(batch, nms_pre, rescale, with_nms) ==
    [cls_scores |-> [l \in Levels |-> [b \in 1..Len(batch) |-> batch[b].cls[l]]],
     bbox_preds |-> [l \in Levels |-> [b \in 1..Len(batch) |-> batch[b].reg[l]]],
     mlvl_anchors |-> get_anchors,
     img_shapes |-> [b \in 1..Len(batch) |-> batch[b].img_shape],
     scale_factors |-> [b \in 1..Len(batch) |-> batch[b].scale_factor],
     cfg |-> test_cfg(nms_pre),
     rescale |-> rescale,
     with_nms |-> with_nms]

BBoxesIdle ==
    /\ bboxes_pc = "idle"
    /\ bboxes_args = <<>>
    /\ batch_mlvl_bboxes = <<>>
    /\ batch_mlvl_scores = <<>>
    /\ det_results = <<>>
    /\ bboxes_error = ""
    /\ mlvl_kept = <<>>

\* A level whose loss_single call has not started
IdleFrame == [status |-> "idle", num_total_samples |-> Frac(0, 1),
              num_total_samples_neg |-> Frac(0, 1)]

NoLosses == [loss_cls |-> <<>>, loss_bbox |-> <<>>, loss_dfl |-> <<>>,
             loss_bbox_neg |-> <<>>, loss_dfl_neg |-> <<>>]

\* The state on entry to loss() / get_targets() for the given batches
Entry(n, batches) ==
    /\ world = n
    /\ imgs = batches
    /\ anchor_list = [w \in 1..n |-> [i \in 1..Len(batches[w]) |-> get_anchors]]
    /\ valid_flag_list =
          [w \in 1..n |-> [i \in 1..Len(batches[w]) |-> batches[w][i].valid_flags]]
    /\ pc = [w \in 1..n |-> "get_targets"]
    /\ error = [w \in 1..n |-> ""]
    /\ targets = [w \in 1..n |-> NoTargets("pending", <<>>)]
    /\ arg_entries = [w \in 1..n |-> "lists"]
    /\ targets_again = [w \in 1..n |-> NoTargets("pending", <<>>)]
    /\ red = [k \in 1..NumReductions |-> [w \in 1..n |-> None]]
    /\ num_total_samples = [w \in 1..n |-> Frac(0, 1)]
    /\ num_total_samples_neg = [w \in 1..n |-> Frac(0, 1)]
    /\ level_results = [w \in 1..n |-> <<>>]
    /\ level_locals = [w \in 1..n |-> <<>>]
    /\ level_frames = [w \in 1..n |-> [l \in Levels |-> IdleFrame]]
    /\ avg_factor = [w \in 1..n |-> Frac(0, 1)]
    /\ avg_factor_neg = [w \in 1..n |-> Frac(0, 1)]
    /\ losses = [w \in 1..n |-> NoLosses]
    /\ trace = [w \in 1..n |-> <<>>]

\* loss() on every worker of a distributed run
Init ==
    \E n \in 1..MaxWorkers :
        /\ \E batches \in [1..n -> PlainBatches] :
              /\ \A w \in 2..n : batches[w] \in PeerBatches
              /\ Entry(n, batches)
        /\ unmap_outputs = [w \in 1..n |-> TRUE]
        /\ cls_prob \in [1..n -> Probs]
        /\ bbox_preds = [w \in 1..n |-> FarBox]
        /\ IntegralIdle
        /\ BBoxesIdle
        /\ anchor_generator_strides = strides

Next ==
    \/ \E w \in Workers : call_get_targets(w)
    \/ \E w \in Workers : reduce_join(w)
    \/ \E w \in Workers : reduce_return(w)
    \/ \E w \in Workers : loss_single_step(w)
    \/ \E w \in Workers : divide_pos(w)
    \/ \E w \in Workers : divide_neg(w)

Spec == Init /\ [][Next]_vars

\* One call of get_targets, with either value of unmap_outputs
InitTargets ==
    /\ \E b \in RichBatches : Entry(1, <<b>>)
    /\ unmap_outputs \in [1..1 -> BOOLEAN]
    /\ cls_prob = <<1>>
    /\ bbox_preds = <<FarBox>>
    /\ IntegralIdle
    /\ BBoxesIdle
    /\ anchor_generator_strides = strides

NextTargets == \E w \in Workers : call_get_targets(w)

SpecTargets == InitTargets /\ [][NextTargets]_vars

\* Two calls of get_targets with the same argument objects, on batches
\* whose first image has any valid flags and no ground truth, or is plain
TwiceBatches ==
    {<<first>> \o rest :
        first \in PlainImages \cup
                  UNION {ImagesFor(vf, <<5, 5>>, 0) : vf \in ValidFlagLists},
        rest \in {<<>>} \cup SeqsUpTo(PlainImages, MaxImgs - 1)}

InitTargetsTwice ==
    /\ \E b \in TwiceBatches : Entry(1, <<b>>)
    /\ unmap_outputs \in [1..1 -> BOOLEAN]
    /\ cls_prob = <<1>>
    /\ bbox_preds = <<FarBox>>
    /\ IntegralIdle
    /\ BBoxesIdle
    /\ anchor_generator_strides = strides

NextTargetsTwice ==
    \/ \E w \in Workers : call_get_targets(w)
    \/ \E w \in Workers : call_get_targets_again(w)

SpecTargetsTwice == InitTargetsTwice /\ [][NextTargetsTwice]_vars

\* No loss() call in progress
LossIdle ==
    /\ Entry(0, <<>>)
    /\ unmap_outputs = <<>>
    /\ cls_prob = <<>>
    /\ bbox_preds = <<>>

\* One call of Integral.forward
InitIntegral ==
    /\ LossIdle
    /\ integral_pc = "forward"
    /\ integral_x \in IntegralInputs
    /\ integral_out = [softmax |-> <<>>, out |-> <<>>]
    /\ BBoxesIdle
    /\ anchor_generator_strides = strides

NextIntegral == forward

SpecIntegral == InitIntegral /\ [][NextIntegral]_vars

\* One call of _get_bboxes
InitBBoxes ==
    /\ LossIdle
    /\ IntegralIdle
    /\ bboxes_pc = "get_bboxes"
    /\ \E batch \in PredictionBatches, nms_pre \in NmsPres,
          rescale \in BOOLEAN, with_nms \in BOOLEAN :
            bboxes_args = BBoxArgs(batch, nms_pre, rescale, with_nms)
    /\ batch_mlvl_bboxes = <<>>
    /\ batch_mlvl_scores = <<>>
    /\ det_results = <<>>
    /\ bboxes_error = ""
    /\ mlvl_kept = <<>>
    /\ anchor_generator_strides = strides

NextBBoxes == call_get_bboxes

SpecBBoxes == InitBBoxes /\ [][NextBBoxes]_vars

\* The stride lists a head can be configured with: the square strides, or the
\* stride of one level made non-square
StrideLists ==
    {strides} \cup
    {[strides EXCEPT ![l] = <<strides[l][1], strides[l][1] \div 2>>] : l \in Levels}

\* One loss() call and one _get_bboxes() call of a head with any of the
\* stride lists
InitStrides ==
    /\ \E b \in PlainBatches : Entry(1, <<b>>)
    /\ unmap_outputs = <<TRUE>>
    /\ cls_prob \in [1..1 -> Probs]
    /\ bbox_preds = <<FarBox>>
    /\ IntegralIdle
    /\ bboxes_pc = "get_bboxes"
    /\ \E batch \in SeqsUpTo(PlainPredictions, MaxImgs), nms_pre \in NmsPres :
            bboxes_args = BBoxArgs(batch, nms_pre, FALSE, TRUE)
    /\ batch_mlvl_bboxes = <<>>
    /\ batch_mlvl_scores = <<>>
    /\ det_results = <<>>
    /\ bboxes_error = ""
    /\ mlvl_kept = <<>>
    /\ anchor_generator_strides \in StrideLists

NextStrides ==
    \/ Next
    \/ call_get_bboxes

SpecStrides == InitStrides /\ [][NextStrides]_vars

\* Images for the per-level loss: every anchor inside the border, one
\* ground-truth box, and the assigners' outcomes on the first level ranging
\* over every matching and every auxiliary weight; nothing matched beyond it
LevelAssignedNegVals == {0, 1, 2}
LevelImages ==
    LET n1 == featmap_sizes[1]
        pad(f, v) == [j \in 1..TotalAnchors |-> IF j <= n1 THEN f[j] ELSE v]
    IN {[valid_flags |-> AllValid, img_shape |-> <<5, 5>>,
         gt_bboxes |-> <<GtBox(1)>>, gt_labels |-> Some(<<0>>),
         assign_pos |-> pad(ap, 0), assign_neg |-> pad(an, 0),
         assigned_neg |-> pad(w, 0)] :
            ap \in [1..n1 -> 0..1], an \in [1..n1 -> 0..1],
            w \in [1..n1 -> LevelAssignedNegVals]}
LevelBatches ==
    {<<first>> \o rest : first \in LevelImages,
                         rest \in {<<>>, <<PlainImage("matched")>>}}
\* Box maps: the distances (0, 0, 1, 1), (reg_max, ..) and (0, 0, 0, 0)
LevelBoxKinds ==
    {<<"low", "low", "second", "second">>, <<"high", "high", "high", "high">>,
     <<"low", "low", "low", "low">>}

\* One loss() call of a single worker on a batch of LevelBatches
InitLevels ==
    /\ \E b \in LevelBatches : Entry(1, <<b>>)
    /\ unmap_outputs = <<TRUE>>
    /\ cls_prob \in [1..1 -> Probs]
    /\ \E kinds \in LevelBoxKinds : bbox_preds = <<BoxLogits(kinds)>>
    /\ IntegralIdle
    /\ BBoxesIdle
    /\ anchor_generator_strides = strides

SpecLevels == InitLevels /\ [][Next]_vars

\* loss() of a single worker with the levels of multi_apply run in any order
\* and interleaving
InitAnyOrder ==
    /\ \E b \in PlainBatches : Entry(1, <<b>>)
    /\ unmap_outputs = <<TRUE>>
    /\ cls_prob \in [1..1 -> Probs]
    /\ \E kinds \in LevelBoxKinds : bbox_preds = <<BoxLogits(kinds)>>
    /\ IntegralIdle
    /\ BBoxesIdle
    /\ anchor_generator_strides = strides

NextAnyOrder ==
    \/ \E w \in Workers : call_get_targets(w)
    \/ \E w \in Workers : reduce_join(w)
    \/ \E w \in Workers : reduce_return(w)
    \/ \E w \in Workers : \E l \in Levels : level_start(w, l)
    \/ \E w \in Workers : \E l \in Levels : level_finish(w, l)
    \/ \E w \in Workers : divide_pos(w)
    \/ \E w \in Workers : divide_neg(w)

SpecAnyOrder == InitAnyOrder /\ [][NextAnyOrder]_vars

----------------------------------------------------------------------------
(* Claims about loss() *)

\* Image i of worker w made the per-image target routine return its sentinel
YieldsSentinel(w, i) == targets[w].per_image[i][2].none
Called(w) == pc[w] # "get_targets"
NumImgs(w) == Len(imgs[w])

\* C1 (as claimed): when the per-image routine returns the all-None sentinel
\* for some image of the batch, get_targets returns None and loss returns None
\* with no loss_single run and no loss entry.
C1_SentinelGivesNone ==
    \A w \in Workers :
        (Called(w) /\ \E i \in 1..NumImgs(w) : YieldsSentinel(w, i)) =>
            /\ targets[w].kind = "None"
            /\ pc[w] = "returned_none"
            /\ level_results[w] = <<>>
            /\ losses[w] = NoLosses

\* C2 (as claimed): a batch whose images all have no ground-truth box gets
\* bbox and dfl loss entries that are exactly zero at every level.
C2_NoGtZeroLosses ==
    \A w \in Workers :
        (pc[w] = "returned_dict"
            /\ \A i \in 1..NumImgs(w) : Len(imgs[w][i].gt_bboxes) = 0) =>
            \A l \in Levels :
                /\ IsExactZero(losses[w].loss_bbox[l])
                /\ IsExactZero(losses[w].loss_dfl[l])

\* C4 (as claimed): every worker issues the same reduce_mean calls in the same
\* order, so no worker is blocked in a reduction that a worker which has left
\* loss() never joined.
C4_NoAbandonedReduction ==
    \A w, v \in Workers :
        (pc[v] \in Terminal /\ Len(calls(w)) > Len(returns(w))) =>
            Len(calls(v)) >= Len(calls(w))

\* The positions of a worker's trace holding a given event
At(w, ev, step) ==
    {j \in 1..Len(trace[w]) : trace[w][j].ev = ev /\ trace[w][j].step = step}
Before(w, j, ev, step) == \E k \in At(w, ev, step) : k < j

\* C5: in one loss call, both count reductions complete (every worker has
\* joined them) before any loss_single starts; the weight-sum reductions start
\* only after loss_single has finished for every level; and a stream's losses
\* are divided only after that stream's weight-sum reduction has completed.
C5_StepOrder ==
    \A w \in Workers : \A j \in 1..Len(trace[w]) :
        LET e == trace[w][j] IN
        /\ e.ev = "loss_single" =>
              /\ Before(w, j, "reduced", "reduce_pos")
              /\ Before(w, j, "reduced", "reduce_pos_neg")
        /\ (e.ev = "join" /\ e.step \in {"reduce_avg", "reduce_avg_neg"}) =>
              \A l \in Levels :
                  \E k \in 1..(j - 1) :
                      trace[w][k].ev = "loss_single" /\ trace[w][k].lvl = l
        /\ (e.ev = "divide" /\ e.step = "pos") => Before(w, j, "reduced", "reduce_avg")
        /\ (e.ev = "divide" /\ e.step = "neg") => Before(w, j, "reduced", "reduce_avg_neg")
        /\ e.ev = "reduced" => \A v \in Workers : At(v, "join", e.step) # {}

C5_Witness ==
    /\ world > 1
    /\ \E w \in Workers : pc[w] = "returned_dict" /\ Len(trace[w]) > 0

\* The positive entries of image i of worker w, counted from its index list
IndexCount(w, i, k) == Len(targets[w].per_image[i][k].v)
FlooredSum(w, k) ==
    SumSeq([i \in 1..NumImgs(w) |-> Max(IndexCount(w, i, k), 1)])
ExpectedNormalizer(k) ==
    MaxOne(Frac(SumSeq([v \in Workers |-> FlooredSum(v, k)]), world))

\* C6: the normalizer handed to every loss_single call is
\* max(reduce_mean(sum over images of max(number of positives, 1)), 1.0); it
\* is at least 1 on every worker, and with one worker it is the local sum,
\* which is at least the batch size.  The same for the negative stream.
C6_Normalizers ==
    \A w \in Workers : \A l \in 1..Len(level_results[w]) :
        LET given == level_results[w][l].loss_cls.avg_factor
            given_neg == num_total_samples_neg[w]
        IN /\ given = ExpectedNormalizer(6)
           /\ given_neg = ExpectedNormalizer(12)
           /\ AtLeastOne(given) /\ AtLeastOne(given_neg)
           /\ world = 1 =>
                /\ given = Frac(FlooredSum(w, 6), 1)
                /\ given_neg = Frac(FlooredSum(w, 12), 1)
                /\ given.n >= NumImgs(w) /\ given_neg.n >= NumImgs(w)

C6_Witness ==
    \E w \in Workers :
        /\ Len(level_results[w]) = Len(strides)
        /\ NumImgs(w) > 1
        /\ \E i \in 1..NumImgs(w) : IndexCount(w, i, 6) = 0
        /\ \E i \in 1..NumImgs(w) : IndexCount(w, i, 6) > 0

----------------------------------------------------------------------------
(* Claims about get_targets and the per-image target routine *)

\* The inside-border flags of image i of worker w, once get_targets has run
InsideFlags(w, i) ==
    anchor_inside_flags(torch_cat(get_anchors), valid_flag_list[w][i],
                        imgs[w][i].img_shape, allowed_border)
PerImage(w, i) == targets[w].per_image[i]
LevelStart(l) == SumSeq(SubSeq(featmap_sizes, 1, l - 1))

\* The position in the per-image tuple and the per-level list of every array
\* get_targets splits
SplitLists(t) ==
    << <<1, t.anchors_list>>, <<2, t.labels_list>>, <<3, t.label_weights_list>>,
       <<4, t.bbox_targets_list>>, <<5, t.bbox_weights_list>>,
       <<8, t.labels_list_neg>>, <<9, t.label_weights_list_neg>>,
       <<10, t.bbox_targets_list_neg>>, <<11, t.bbox_weights_list_neg>>,
       <<14, t.assigned_neg_list>> >>

C8_OutsideAnchors ==
    \A w \in Workers :
        (Called(w) /\ unmap_outputs[w]) =>
            \A i \in 1..NumImgs(w) :
                ~YieldsSentinel(w, i) =>
                    LET r == PerImage(w, i)
                        keep == nonzero(InsideFlags(w, i))
                    IN /\ \A p \in 1..TotalAnchors :
                            ~InsideFlags(w, i)[p] =>
                                /\ r[2].v[p] = num_classes /\ r[8].v[p] = num_classes
                                /\ r[3].v[p] = 0 /\ r[9].v[p] = 0
                                /\ r[4].v[p] = ZeroBox /\ r[10].v[p] = ZeroBox
                                /\ r[14].v[p] = 0
                       /\ \A k \in {6, 7, 12, 13} :
                            \A j \in 1..Len(r[k].v) :
                                /\ r[k].v[j] \in 1..Len(keep)
                                /\ InsideFlags(w, i)[keep[r[k].v[j]]]

C8_Witness ==
    \E w \in Workers :
        /\ Called(w) /\ unmap_outputs[w]
        /\ ~YieldsSentinel(w, 1)
        /\ ~InsideFlags(w, 1)[1]
        /\ Len(PerImage(w, 1)[6].v) > 0
        /\ Len(PerImage(w, 1)[12].v) > 0

ForegroundCount(labels) ==
    Cardinality({p \in 1..Len(labels) : labels[p] >= 0 /\ labels[p] < num_classes})

\* C9: an image without ground-truth boxes and with an anchor inside the
\* border gets the background label at every anchor in both streams and an
\* empty positive index list, and adds exactly 1 to num_total_pos.
C9_NoGtImage ==
    \A w \in Workers :
        Called(w) =>
            LET NoGt == {i \in 1..NumImgs(w) :
                            ~YieldsSentinel(w, i) /\ Len(imgs[w][i].gt_bboxes) = 0}
                others == {i \in 1..NumImgs(w) : Len(imgs[w][i].gt_bboxes) > 0}
            IN /\ \A i \in NoGt :
                     LET r == PerImage(w, i) IN
                     /\ \A p \in 1..Len(r[2].v) : r[2].v[p] = num_classes
                     /\ \A p \in 1..Len(r[8].v) : r[8].v[p] = num_classes
                     /\ r[6].v = <<>> /\ r[12].v = <<>>
               /\ targets[w].kind = "ok" =>
                     targets[w].num_total_pos =
                        Cardinality(NoGt)
                        + SumSeq([i \in 1..NumImgs(w) |->
                                    IF i \in others
                                    THEN Max(ForegroundCount(PerImage(w, i)[2].v), 1)
                                    ELSE 0])

C9_Witness ==
    \E w \in Workers :
        /\ targets[w].kind = "ok"
        /\ NumImgs(w) = 2
        /\ Len(imgs[w][1].gt_bboxes) = 0
        /\ \E p \in 1..TotalAnchors : ~InsideFlags(w, 1)[p]
        /\ Len(PerImage(w, 2)[6].v) > 0

----------------------------------------------------------------------------
(* Claims about Integral *)

\* C10: Integral.forward returns one row of 4 offsets per input row; the
\* offset of row r, side c is the expectation over bins 0..reg_max of a
\* distribution with entries in [0, 1] that sum to 1 and are ordered as the
\* logits of that side, and it lies in [0, reg_max].
C10_IntegralRange ==
    integral_pc = "returned" =>
        LET N == Len(integral_x)
            sm == integral_out.softmax
            out == integral_out.out
        IN /\ Len(out) = N
           /\ Len(sm) = 4 * N
           /\ \A r \in 1..N :
                /\ Len(integral_x[r]) = 4 * (reg_max + 1)
                /\ Len(out[r]) = 4
                /\ \A c \in 1..4 :
                     LET p == sm[4 * (r - 1) + c]
                         logit(i) == integral_x[r][(c - 1) * (reg_max + 1) + i]
                     IN /\ Len(p) = reg_max + 1
                        /\ \A i \in 1..(reg_max + 1) :
                             /\ RatLe(RatInt(0), p[i]) /\ RatLe(p[i], RatInt(1))
                             /\ \A j \in 1..(reg_max + 1) :
                                  logit(i) <= logit(j) => RatLe(p[i], p[j])
                        /\ RatSum(p) = RatInt(1)
                        /\ out[r][c] =
                              RatSum([i \in 1..(reg_max + 1) |->
                                        RatMul(RatInt(i - 1), p[i])])
                        /\ RatLe(RatInt(0), out[r][c])
                        /\ RatLe(out[r][c], RatInt(reg_max))

C10_Witness ==
    /\ integral_pc = "returned"
    /\ Len(integral_x) = 2
    /\ \E c \in 1..4 : integral_out.out[1][c] = RatInt(reg_max)
    /\ \E c \in 1..4 : /\ RatLt(RatInt(0), integral_out.out[1][c])
                       /\ RatLt(integral_out.out[1][c], RatInt(1))
    /\ integral_out.out[2][1] = RatInt(0)

----------------------------------------------------------------------------
(* Claims about _get_bboxes *)

\* Coordinate c of a box of image b lies within the image shape stretched by
\* stretch (a 4-tuple of factors)
WithinShape(box, b, stretch) ==
    \A c \in 1..4 :
        LET side == bboxes_args.img_shapes[b][IF c \in {1, 3} THEN 2 ELSE 1]
        IN /\ RatLe(RatInt(0), box[c])
           /\ RatLe(RatMul(box[c], stretch[c]), RatInt(side))

\* Every box of the call satisfies P(box, image)
EveryBox(P(_, _)) ==
    \A b \in 1..Len(batch_mlvl_bboxes) :
        /\ \A j \in 1..Len(batch_mlvl_bboxes[b]) : P(batch_mlvl_bboxes[b][j], b)
        /\ \A j \in 1..Len(det_results[b][1]) : P(det_results[b][1][j], b)

InShape(box, b) == WithinShape(box, b, [c \in 1..4 |-> RatInt(1)])
InRescaledShape(box, b) ==
    WithinShape(box, b, IF bboxes_args.rescale THEN bboxes_args.scale_factors[b]
                        ELSE [c \in 1..4 |-> RatInt(1)])

\* C3 (as claimed): every box _get_bboxes hands to NMS or returns has its x
\* coordinates in [0, width] and its y coordinates in [0, height] of the
\* supplied image shape, whatever nms_pre, rescale and the scale factor are.
C3_BoxesInShape == bboxes_pc = "returned" => EveryBox(InShape)

\* C3: every box _get_bboxes hands to NMS or returns lies within the supplied
\* image shape when rescale is off, and within that shape divided by the
\* image's scale factor (x in [0, width / w_scale], y in [0, height /
\* h_scale]) when rescale is on.
C3_BoxesInRescaledShape == bboxes_pc = "returned" => EveryBox(InRescaledShape)

C3_Witness ==
    /\ bboxes_pc = "returned"
    /\ bboxes_args.rescale
    /\ bboxes_args.with_nms
    /\ bboxes_args.cfg.nms_pre = 1
    /\ Len(det_results[1][1]) > 0
    /\ ~InShape(det_results[1][1][1], 1)
    /\ \E j \in 1..Len(batch_mlvl_bboxes[1]) :
          RatMul(batch_mlvl_bboxes[1][j][3], bboxes_args.scale_factors[1][3])
              = RatInt(bboxes_args.img_shapes[1][2])

----------------------------------------------------------------------------
(* Claims about the stride assertion *)

NonSquareLevels ==
    {l \in Levels : anchor_generator_strides[l][1] # anchor_generator_strides[l][2]}

----------------------------------------------------------------------------
(* Claims about loss_single *)

\* The calls of loss_single a worker has made, and those that returned
LevelCalls(w) == 1..Len(level_locals[w])
LevelReturns(w) == 1..Len(level_results[w])
\* The inputs of the call for level l, flattened as reshape(-1) does
FlatLabels(w, l) == torch_cat(targets[w].labels_list[l])
FlatLabelsNeg(w, l) == torch_cat(targets[w].labels_list_neg[l])
FlatAssignedNeg(w, l) == torch_cat(targets[w].assigned_neg_list[l])
Foreground(label) == label >= 0 /\ label < num_classes
\* The predicted box of anchor p of level l decoded in stride units, its
\* positive-stream target in stride units, and their overlap
DecodedPrediction(w, l, p) ==
    LET a == torch_cat(targets[w].anchors_list[l])[p]
        st == RatInt(anchor_generator_strides[l][1])
        cx == RatDiv(Rat(a[1] + a[3], 2), st)
        cy == RatDiv(Rat(a[2] + a[4], 2), st)
        d == Integral_forward(<<bbox_preds[w]>>).out[1]
    IN <<RatSub(cx, d[1]), RatSub(cy, d[2]), RatAdd(cx, d[3]), RatAdd(cy, d[4])>>
DecodedTarget(w, l, p) ==
    LET b == torch_cat(targets[w].bbox_targets_list[l])[p]
    IN [c \in 1..4 |-> Rat(b[c], anchor_generator_strides[l][1])]
Overlap(w, l, p) ==
    bbox_overlaps(<<DecodedPrediction(w, l, p)>>, <<DecodedTarget(w, l, p)>>)[1]

\* C12: the score array loss_single hands to the classification loss holds,
\* at every anchor whose positive-stream label is foreground, the overlap of
\* its decoded predicted box with its positive-stream box target, a value in
\* [0, 1] that is 1 when the two boxes coincide; at every other anchor, the
\* anchors that are foreground only in the negative stream included, it
\* holds exactly 0.
C12_ScoreIsOverlap ==
    \A w \in Workers : \A l \in LevelReturns(w) :
        LET score == level_locals[w][l].score
            labels == FlatLabels(w, l)
        IN /\ Len(score) = Len(labels)
           /\ \A p \in 1..Len(labels) :
                IF Foreground(labels[p])
                THEN /\ score[p] = Overlap(w, l, p)
                     /\ RatLe(RatInt(0), score[p])
                     /\ RatLe(score[p], RatInt(1))
                     /\ (\A c \in 1..4 : DecodedPrediction(w, l, p)[c]
                                            = DecodedTarget(w, l, p)[c])
                            => score[p] = RatInt(1)
                ELSE score[p] = RatInt(0)

\* A returned level with an anchor whose predicted box coincides with its
\* target, an anchor with a partial overlap, and an anchor that is foreground
\* in the negative stream only
C12_Witness ==
    \E l \in LevelReturns(1) :
        LET score == level_locals[1][l].score
            labels == FlatLabels(1, l)
            labels_neg == FlatLabelsNeg(1, l)
        IN /\ \E p \in 1..Len(labels) :
                /\ Foreground(labels[p])
                /\ score[p] = RatInt(1)
                /\ \A c \in 1..4 : DecodedPrediction(1, l, p)[c]
                                      = DecodedTarget(1, l, p)[c]
           /\ \E p \in 1..Len(labels) :
                /\ Foreground(labels[p])
                /\ RatLt(score[p], RatInt(1))
           /\ \E p \in 1..Len(labels) :
                /\ ~Foreground(labels[p])
                /\ Foreground(labels_neg[p])
                /\ score[p] = RatInt(0)

\* C13: for each stream, a level without a foreground anchor of the stream
\* gets a bbox loss and a dfl loss of exactly zero and a weight sum of exactly
\* zero for that stream, and its classification loss is still computed over
\* all the anchors of the level.
C13_NoForegroundLevel ==
    \A w \in Workers : \A l \in LevelReturns(w) :
        LET r == level_results[w][l]
            labels == FlatLabels(w, l)
            labels_neg == FlatLabelsNeg(w, l)
            none(lab) == \A p \in 1..Len(lab) : ~Foreground(lab[p])
        IN /\ none(labels) =>
                /\ IsExactZero(r.loss_bbox)
                /\ IsExactZero(r.loss_dfl)
                /\ r.weight_sum = 0
           /\ none(labels_neg) =>
                /\ IsExactZero(r.loss_bbox_neg)
                /\ IsExactZero(r.loss_dfl_neg)
                /\ r.weight_sum_neg = 0
           /\ (none(labels) \/ none(labels_neg)) =>
                /\ r.loss_cls.num_anchors = Len(labels)
                /\ r.loss_cls.num_anchors = Len(imgs[w]) * featmap_sizes[l]

\* A returned level with foreground in one stream only, for either stream,
\* and a returned level with foreground in neither
C13_Witness ==
    /\ pc[1] = "returned_dict"
    /\ cls_prob[1] = 1
    /\ \E l \in LevelReturns(1) :
          /\ level_results[1][l].num_pos = 0
          /\ level_results[1][l].num_pos_neg = 0
    /\ \E l \in LevelReturns(1) :
          /\ level_results[1][l].num_pos = 0
          /\ level_results[1][l].num_pos_neg > 0
          /\ level_results[1][l].weight_sum_neg > 0

\* C16: the indicator "the top class probability is negative" is 0 at every
\* anchor, so when the negative stream has a foreground anchor the weight of
\* each anchor selected by assigned_neg > 0 is its assigned_neg value, and the
\* negative weight sum loss_single returns is the sum of assigned_neg over
\* the anchors with assigned_neg > 0.
C16_NegWeightIsAssignedNeg ==
    \A w \in Workers : \A l \in LevelCalls(w) :
        LET f == level_locals[w][l]
            assigned_neg == FlatAssignedNeg(w, l)
            selected == nonzero([p \in 1..Len(assigned_neg) |-> assigned_neg[p] > 0])
        IN Len(f.pos_inds_neg) > 0 =>
            /\ f.remain_inds = selected
            /\ Len(f.weight_targets_neg) = Len(selected)
            /\ \A j \in 1..Len(selected) :
                  f.weight_targets_neg[j] = assigned_neg[selected[j]]
            /\ l \in LevelReturns(w) =>
                  level_results[w][l].weight_sum_neg = SumSeq(assigned_neg)

\* A returned level with two negative-stream foreground anchors whose
\* assigned_neg values differ
C16_Witness ==
    \E l \in LevelReturns(1) :
        LET f == level_locals[1][l]
        IN /\ Len(f.pos_inds_neg) > 1
           /\ Len(f.remain_inds) > 1
           /\ f.weight_targets_neg[1] # f.weight_targets_neg[2]
           /\ level_results[1][l].weight_sum_neg > 2

\* C17 (as claimed): whenever a loss_single call has a negative-stream
\* foreground anchor, the weight vector it passes to the negative-stream box
\* and distribution losses has one entry per negative-stream foreground
\* anchor, in the order of the predictions: the anchors with assigned_neg > 0
\* are exactly the negative-stream foreground anchors.
C17_NegWeightsMatchForeground ==
    \A w \in Workers : \A l \in LevelCalls(w) :
        LET f == level_locals[w][l]
        IN Len(f.pos_inds_neg) > 0 =>
            /\ Len(f.weight_targets_neg) = Len(f.pos_inds_neg)
            /\ f.remain_inds = f.pos_inds_neg

----------------------------------------------------------------------------
(* Claims about the pre-filter of _get_bboxes *)

\* What _get_bboxes computes for anchor k of image b at level l before the
\* pre-filter: its class scores, its top class score and its distances
OrigScores(l, b, k) ==
    LET x == bboxes_args.cls_scores[l][b][k]
    IN [c \in 1..Len(x) |-> sigmoid(x[c])]
OrigMaxScore(l, b, k) ==
    LET sc == OrigScores(l, b, k)
    IN CHOOSE v \in {sc[c] : c \in 1..Len(sc)} : \A c \in 1..Len(sc) : RatLe(sc[c], v)
OrigDistance(l, b, k) ==
    LET d == Integral_forward(<<bboxes_args.bbox_preds[l][b][k]>>).out[1]
    IN [c \in 1..4 |-> RatMul(d[c], RatInt(anchor_generator_strides[l][1]))]

\* C14: for each level and image, when nms_pre > 0 and the level has more
\* than nms_pre anchors, exactly nms_pre (anchor, distances, scores) triples
\* are kept, each made of the data of one original anchor, and no anchor left
\* out has a higher top class score than one kept; otherwise every anchor of
\* the level is kept, in place.
C14_PreFilterKeepsTopK ==
    bboxes_pc = "returned" =>
        \A l \in Levels : \A b \in 1..Len(bboxes_args.img_shapes) :
            LET n == Len(bboxes_args.cls_scores[l][b])
                k == bboxes_args.cfg.nms_pre
                kept == mlvl_kept[l]
                same(j, q) ==
                    /\ kept.anchors[b][j] = bboxes_args.mlvl_anchors[l][q]
                    /\ \A c \in 1..4 : kept.bbox_pred[b][j][c] = OrigDistance(l, b, q)[c]
                    /\ \A c \in 1..num_classes :
                          kept.scores[b][j][c] = OrigScores(l, b, q)[c]
                m == IF k > 0 /\ n > k THEN k ELSE n
            IN /\ Len(kept.anchors[b]) = m
               /\ Len(kept.bbox_pred[b]) = m
               /\ Len(kept.scores[b]) = m
               /\ IF k > 0 /\ n > k
                  THEN \E t \in [1..k -> 1..n] :
                          /\ \A i, j \in 1..k : i # j => t[i] # t[j]
                          /\ \A j \in 1..k : same(j, t[j])
                          /\ \A q \in 1..n :
                                (\A j \in 1..k : t[j] # q) =>
                                    \A j \in 1..k : RatLe(OrigMaxScore(l, b, q),
                                                          OrigMaxScore(l, b, t[j]))
                  ELSE \A j \in 1..n : same(j, j)

\* A batch of two images with nms_pre = 1: at the first level the first image
\* keeps its second anchor, which beats its first, and the two images keep
\* different scores; the second level keeps its only anchor
C14_Witness ==
    /\ bboxes_pc = "returned"
    /\ bboxes_args.cfg.nms_pre = 1
    /\ Len(bboxes_args.img_shapes) = 2
    /\ Len(mlvl_kept[1].anchors[1]) = 1
    /\ mlvl_kept[1].anchors[1][1] = bboxes_args.mlvl_anchors[1][2]
    /\ RatLt(OrigMaxScore(1, 1, 1), OrigMaxScore(1, 1, 2))
    /\ mlvl_kept[1].scores[1] # mlvl_kept[1].scores[2]
    /\ Len(mlvl_kept[Len(strides)].anchors[1]) = featmap_sizes[Len(strides)]

----------------------------------------------------------------------------
(* Claims about the independence of the levels *)

\* What loss() computes with the levels run in level order: the tuple of
\* each level, and the dictionary built from them
InOrderTuple(w, l) ==
    LET t == targets[w]
    IN loss_single(t.anchors_list[l], cls_prob[w], bbox_preds[w],
                   t.labels_list[l], t.label_weights_list[l],
                   t.bbox_targets_list[l], t.labels_list_neg[l],
                   t.bbox_targets_list_neg[l], anchor_generator_strides[l],
                   t.assigned_neg_list[l],
                   num_total_samples[w], num_total_samples_neg[w])
InOrderLosses(w) ==
    LET factor == reduce_mean(<<SumSeq([l \in Levels |-> InOrderTuple(w, l).weight_sum])>>)
        factor_neg ==
            reduce_mean(<<SumSeq([l \in Levels |-> InOrderTuple(w, l).weight_sum_neg])>>)
    IN [loss_cls |-> [l \in Levels |-> InOrderTuple(w, l).loss_cls],
        loss_bbox |-> [l \in Levels |-> FracDiv(InOrderTuple(w, l).loss_bbox, factor)],
        loss_dfl |-> [l \in Levels |-> FracDiv(InOrderTuple(w, l).loss_dfl, factor)],
        loss_bbox_neg |->
            [l \in Levels |-> FracDiv(InOrderTuple(w, l).loss_bbox_neg, factor_neg)],
        loss_dfl_neg |->
            [l \in Levels |-> FracDiv(InOrderTuple(w, l).loss_dfl_neg, factor_neg)]]

----------------------------------------------------------------------------
(* Claims about the divisors of loss() *)

\* C18 (as claimed): whenever loss returns a loss dictionary, the two
\* cross-level weight sums that divide the bbox and dfl losses of the
\* positive and of the negative stream are strictly positive, whatever the
\* batch.
C18_PositiveDivisors ==
    \A w \in Workers :
        pc[w] = "returned_dict" =>
            /\ IsPositive(avg_factor[w])
            /\ IsPositive(avg_factor_neg[w])

----------------------------------------------------------------------------
(* Claims about the arguments and the arrays of get_targets *)

\* The positions of the per-anchor arrays in the per-image tuple
PerAnchorArrays == {1, 2, 3, 4, 5, 8, 9, 10, 11, 14}

\* C20 (as claimed): for every image that does not yield the sentinel, each
\* per-anchor array the per-image routine returns (anchors; labels, label
\* weights, box targets and box weights of both streams; assigned_neg) has
\* as many entries as there are anchors in all levels, for both values of
\* unmap_outputs.
C20_ArraysCoverAllAnchors ==
    \A w \in Workers :
        Called(w) =>
            \A i \in 1..NumImgs(w) :
                ~YieldsSentinel(w, i) =>
                    \A k \in PerAnchorArrays :
                        Len(PerImage(w, i)[k].v) = SumSeq(num_level_anchors_of(get_anchors))

\* C19 (as claimed): get_targets leaves the caller's anchor_list and
\* valid_flag_list as they were, every entry a list of per-level arrays, so a
\* second call with the same argument objects computes the same per-level
\* anchor counts and returns the same result as the first.
C19_ArgumentsUnchanged ==
    \A w \in Workers :
        Called(w) =>
            /\ arg_entries[w] = "lists"
            /\ anchor_list[w] = [i \in 1..NumImgs(w) |-> get_anchors]
            /\ valid_flag_list[w] = [i \in 1..NumImgs(w) |-> imgs[w][i].valid_flags]
            /\ targets_again[w].kind # "pending" =>
                  /\ targets_again[w].num_level_anchors = num_level_anchors_of(get_anchors)
                  /\ targets_again[w] = targets[w]

====
